---- MODULE Spec2Model ----
(***************************************************************************)
(* The number pipeline (src/number_pipeline.cpp and its revision,          *)
(* src/unnamed/part_000) and the Logger singleton (src/test.cpp).         *)
(*                                                                         *)
(* Strings that the programs inspect character by character (the filter   *)
(* token, the file name) are sequences of one-character strings.           *)
(* An output line is a record, so that lines of different shape compare.   *)
(***************************************************************************)
EXTENDS Integers, Sequences, FiniteSets, TLC

VARIABLES
    build,      \* which translation unit is the program: "number_pipeline" or "part_000"
    argv,       \* argv[1..] of the invocation (argv[0] left out)
    disk,       \* [opens, items]: whether the named file opens, and its tokens
    pc,         \* position of the process
    filter,     \* the INumberFilter that create_filter returned
    numbers,    \* NumberProcessor::run's local vector
    i,          \* index of the range-for over numbers
    j,          \* index of the range-for over observers
    count,      \* CountObserver::count
    stdout,     \* lines written to std::cout by the current process
    stderr,     \* lines written to std::cerr by the current process
    exitCode,   \* value returned by main (NoExit while running)
    calls,      \* history: observer callbacks of the current process, in order
    runNo,      \* history: which invocation of the program this is
    prevOut,    \* history: stdout of the previous invocation
    prevExit,   \* history: exit code of the previous invocation
    made,       \* harness: what create_filter produced
    probe,      \* harness: the integer handed to keep
    kept,       \* harness: what keep returned
    sink_,      \* Logger::sink_
    lout,       \* logging demo: lines on std::cout
    appLog,     \* logging demo: lines of app.log
    lcalls      \* history: calls made on the Logger, in order

vars == <<build, argv, disk, pc, filter, numbers, i, j, count, stdout, stderr,
          exitCode, calls, runNo, prevOut, prevExit, made, probe, kept,
          sink_, lout, appLog, lcalls>>

pipeVars == <<build, argv, disk, pc, filter, numbers, i, j, count, stdout, stderr,
              exitCode, calls, runNo, prevOut, prevExit>>
harnessVars == <<made, probe, kept>>
logVars == <<sink_, lout, appLog, lcalls>>

----------------------------------------------------------------------------
(* Bounds *)

MaxSuffixLen == 2      \* characters after the token's head in the factory harness
MaxNum == 7            \* integers handed to keep are -MaxNum..MaxNum
MaxItems == 3          \* tokens in the number file
MaxRuns == 2           \* invocations of the pipeline in a row
MaxLogCalls == 4       \* calls on the Logger

----------------------------------------------------------------------------
(* Program constants *)

INT_MAX == 2147483647
INT_MIN == -INT_MAX - 1

Builds == {"number_pipeline", "part_000"}

----------------------------------------------------------------------------
(* Characters and strings *)

Digits == <<"0", "1", "2", "3", "4", "5", "6", "7", "8", "9">>

IsDigit(c) == \E d \in 1..10 : Digits[d] = c

DigitVal(c) == (CHOOSE d \in 1..10 : Digits[d] = c) - 1

IsSpace(c) == c = " "

\* std::string::substr(pos)
substr(s, pos) == IF pos >= Len(s) THEN <<>> ELSE SubSeq(s, pos + 1, Len(s))

\* s.rfind(key, 0) == 0 : key is a prefix of s
StartsWith(s, key) == Len(s) >= Len(key) /\ SubSeq(s, 1, Len(key)) = key

EVEN == <<"E", "V", "E", "N">>
ODD == <<"O", "D", "D">>
GT == <<"G", "T">>

----------------------------------------------------------------------------
(* operator>>(std::istream&, int&) on a string stream *)

RECURSIVE SkipWs(_)
SkipWs(s) == IF s # <<>> /\ IsSpace(Head(s)) THEN SkipWs(Tail(s)) ELSE s

RECURSIVE DigitRun(_)
\* the longest prefix of s made of decimal digits
DigitRun(s) ==
    IF s # <<>> /\ IsDigit(Head(s)) THEN <<Head(s)>> \o DigitRun(Tail(s)) ELSE <<>>

RECURSIVE Accumulate(_, _, _)
\* the value of the digits ds after acc, negated when neg; not ok as soon as
\* the value leaves [INT_MIN, INT_MAX]  (acc keeps the sign of the result)
Accumulate(ds, acc, neg) ==
    IF ds = <<>> THEN [ok |-> TRUE, value |-> acc]
    ELSE LET d == DigitVal(Head(ds))
         IN  IF ~neg
             THEN IF acc > (INT_MAX - d) \div 10
                  THEN [ok |-> FALSE, value |-> INT_MAX]
                  ELSE Accumulate(Tail(ds), acc * 10 + d, neg)
             ELSE IF -acc > (IF d = 0 THEN INT_MAX \div 10
                                      ELSE (INT_MAX - (d - 1)) \div 10)
                  THEN [ok |-> FALSE, value |-> INT_MIN]
                  ELSE Accumulate(Tail(ds), acc * 10 - d, neg)

\* iss >> threshold : leading white space skipped, an optional sign, then
\* decimal digits; fails with no digit or with a value outside int.
ExtractInt(s) ==
    LET t == SkipWs(s)
        signed == t # <<>> /\ Head(t) \in {"-", "+"}
        neg == t # <<>> /\ Head(t) = "-"
        body == IF signed THEN Tail(t) ELSE t
        ds == DigitRun(body)
    IN  IF ds = <<>> THEN [ok |-> FALSE, value |-> 0]
        ELSE Accumulate(ds, 0, neg)

----------------------------------------------------------------------------
(* Filters *)

\* the built-in % of C++ : the remainder has the sign of the dividend
CRem(a, b) == IF a >= 0 THEN a % b ELSE -((-a) % b)

NoFilter == [kind |-> "none", threshold |-> 0]
EvenFilter == [kind |-> "Even", threshold |-> 0]
OddFilter == [kind |-> "Odd", threshold |-> 0]
GreaterThanFilter(t) == [kind |-> "GT", threshold |-> t]

\* keep with the odd test written as a remainder of 1
keep_odd_remainder_one(f, number) ==
    CASE f.kind = "Even" -> CRem(number, 2) = 0
      [] f.kind = "Odd" -> CRem(number, 2) = 1
      [] f.kind = "GT" -> number > f.threshold
      [] OTHER -> FALSE

\* keep with the threshold itself let through
keep_not_strict(f, number) ==
    CASE f.kind = "Even" -> CRem(number, 2) = 0
      [] f.kind = "Odd" -> CRem(number, 2) # 0
      [] f.kind = "GT" -> number >= f.threshold
      [] OTHER -> FALSE

keep(f, number) ==
    CASE f.kind = "Even" -> CRem(number, 2) = 0
      [] f.kind = "Odd" -> CRem(number, 2) # 0
      [] f.kind = "GT" -> number > f.threshold
      [] OTHER -> FALSE

----------------------------------------------------------------------------
(* Filter factory *)

Returned(f) == [ok |-> TRUE, filter |-> f, what |-> "", args |-> <<>>]
Thrown(text, carried) ==
    [ok |-> FALSE, filter |-> NoFilter, what |-> text, args |-> carried]

\* src/number_pipeline.cpp : the static if / else-if chain
create_filter_static(filter_str) ==
    IF filter_str = EVEN THEN Returned(EvenFilter)
    ELSE IF filter_str = ODD THEN Returned(OddFilter)
    ELSE IF StartsWith(filter_str, GT) THEN
        LET r == ExtractInt(substr(filter_str, 2))
        IN  IF ~r.ok THEN Thrown("Invalid GT filter format", <<>>)
            ELSE Returned(GreaterThanFilter(r.value))
    ELSE Thrown("Unknown filter: ", <<filter_str>>)

\* src/unnamed/part_000 : the keys of std::map<std::string, FactoryFunction>, in key order
registry == <<EVEN, GT, ODD>>

\* src/unnamed/part_000 : the lambda registered under each key
factory(key, input) ==
    IF key = EVEN THEN Returned(EvenFilter)
    ELSE IF key = ODD THEN Returned(OddFilter)
    ELSE LET r == ExtractInt(substr(input, 2))
         IN  IF ~r.ok THEN Thrown("Invalid GT filter format: ", <<input>>)
             ELSE Returned(GreaterThanFilter(r.value))

\* src/unnamed/part_000 : the first registered key that is a prefix of the token
create_filter_registry(filter_str) ==
    LET hits == {k \in 1..Len(registry) : StartsWith(filter_str, registry[k])}
    IN  IF hits = {} THEN Thrown("Unknown filter: ", <<filter_str>>)
        ELSE factory(registry[CHOOSE k \in hits : \A h \in hits : k <= h], filter_str)

create_filter(b, filter_str) ==
    IF b = "number_pipeline" THEN create_filter_static(filter_str)
    ELSE create_filter_registry(filter_str)

----------------------------------------------------------------------------
(* Reader *)

FileName == <<"n", ".", "t", "x", "t">>

ErrLine(text, what, carried) == [text |-> text, what |-> what, args |-> carried]

RECURSIVE ReadInts(_)
\* while (file >> num) numbers.push_back(num);
\* the file is its white-space separated tokens, each one either an integer
\* or not numeric from its first character on; the first failed extraction
\* ends the loop.
ReadInts(items) ==
    IF items = <<>> THEN <<>>
    ELSE LET r == ExtractInt(Head(items))
         IN  IF ~r.ok THEN <<>> ELSE <<r.value>> \o ReadInts(Tail(items))

\* src/number_pipeline.cpp : a diagnostic on std::cerr and an empty vector
read_numbers_soft(filename, d) ==
    IF ~d.opens
    THEN [ok |-> TRUE, numbers |-> <<>>, what |-> "", args |-> <<>>,
          diag |-> <<ErrLine("Error: Cannot open file ", "", <<filename>>)>>]
    ELSE [ok |-> TRUE, numbers |-> ReadInts(d.items), what |-> "", args |-> <<>>,
          diag |-> <<>>]

\* the throwing reader with the failure swallowed
read_numbers_throwing_swallowed(filename, d) ==
    IF ~d.opens
    THEN [ok |-> TRUE, numbers |-> <<>>, what |-> "", args |-> <<>>, diag |-> <<>>]
    ELSE [ok |-> TRUE, numbers |-> ReadInts(d.items), what |-> "", args |-> <<>>,
          diag |-> <<>>]

\* src/unnamed/part_000 : std::runtime_error("Cannot open file: " + filename)
read_numbers_throwing(filename, d) ==
    IF ~d.opens
    THEN [ok |-> FALSE, numbers |-> <<>>, what |-> "Cannot open file: ",
          args |-> <<filename>>, diag |-> <<>>]
    ELSE [ok |-> TRUE, numbers |-> ReadInts(d.items), what |-> "", args |-> <<>>,
          diag |-> <<>>]

read_numbers(b, filename, d) ==
    IF b = "number_pipeline" THEN read_numbers_soft(filename, d)
    ELSE read_numbers_throwing(filename, d)

----------------------------------------------------------------------------
(* Observers *)

NumLine(n) == [text |-> "", val |-> n]
TotalLine(c) == [text |-> "Total numbers passed filter: ", val |-> c]

\* std::vector<INumberObserver*> observers = { &printObserver, &countObserver };
observers == <<"PrintObserver", "CountObserver">>

\* the counter left uninitialised
CountObserver_ctor_uninitialised(garbage) == garbage

\* int count = 0;  (the argument is what the storage held before)
CountObserver_ctor(garbage) == 0

\* st = [out, count] : std::cout and CountObserver::count
on_number(obs, st, number) ==
    IF obs = "PrintObserver"
    THEN [out |-> Append(st.out, NumLine(number)), count |-> st.count]
    ELSE [out |-> st.out, count |-> st.count + 1]

on_finished(obs, st) ==
    IF obs = "PrintObserver"
    THEN st
    ELSE [out |-> Append(st.out, TotalLine(st.count)), count |-> st.count]

Call(obs, cb, number) == [obs |-> obs, cb |-> cb, val |-> number]

----------------------------------------------------------------------------
(* main of the number pipeline *)

\* exitCode while main has not returned
NoExit == -1
\* return 1;
UsageExit == 1
\* the catch of main returning the code of the usage error
CatchExit_as_usage == UsageExit
\* return 2;
CatchExit == 2

UsageLines ==
    <<ErrLine("Usage: ./number_pipeline <FILTER> <FILENAME>", "", <<>>),
      ErrLine("Example: ./number_pipeline EVEN numbers.txt", "", <<>>)>>

argc == Len(argv) + 1

\* if (argc != 3) { usage; return 1; }
Main_Args ==
    /\ pc = "main"
    /\ IF argc # 3
       THEN /\ stderr' = stderr \o UsageLines
            /\ exitCode' = UsageExit
            /\ pc' = "exit"
       ELSE /\ pc' = "create"
            /\ UNCHANGED <<stderr, exitCode>>
    /\ UNCHANGED <<build, argv, disk, filter, numbers, i, j, count, stdout, calls,
                   runNo, prevOut, prevExit>>
    /\ UNCHANGED <<harnessVars, logVars>>

\* auto filter = create_filter(filter_str); then the reader, the observers and
\* the processor are constructed; an exception lands in the catch of main.
Main_CreateFilter ==
    /\ pc = "create"
    /\ LET r == create_filter(build, argv[1])
       IN  IF r.ok
           THEN /\ filter' = r.filter
                /\ count' = CountObserver_ctor(count)
                /\ pc' = "read"
                /\ UNCHANGED <<stderr, exitCode>>
           ELSE /\ stderr' = Append(stderr, ErrLine("Error: ", r.what, r.args))
                /\ exitCode' = CatchExit
                /\ pc' = "exit"
                /\ UNCHANGED <<filter, count>>
    /\ UNCHANGED <<build, argv, disk, numbers, i, j, stdout, calls,
                   runNo, prevOut, prevExit>>
    /\ UNCHANGED <<harnessVars, logVars>>

\* auto numbers = reader.read_numbers(filename);
Run_Read ==
    /\ pc = "read"
    /\ LET r == read_numbers(build, argv[2], disk)
       IN  IF r.ok
           THEN /\ numbers' = r.numbers
                /\ stderr' = stderr \o r.diag
                /\ i' = 1
                /\ pc' = "loop"
                /\ UNCHANGED exitCode
           ELSE /\ stderr' = Append(stderr, ErrLine("Error: ", r.what, r.args))
                /\ exitCode' = CatchExit
                /\ pc' = "exit"
                /\ UNCHANGED <<numbers, i>>
    /\ UNCHANGED <<build, argv, disk, filter, j, count, stdout, calls,
                   runNo, prevOut, prevExit>>
    /\ UNCHANGED <<harnessVars, logVars>>

\* the loop that reports the end only when something was counted
Run_Next_finish_only_if_kept ==
    /\ pc = "loop"
    /\ IF i > Len(numbers)
       THEN /\ pc' = IF Len(observers) = 0 \/ count = 0 THEN "return" ELSE "finish"
            /\ j' = 1
            /\ UNCHANGED i
       ELSE IF keep(filter, numbers[i]) /\ Len(observers) > 0
       THEN /\ pc' = "notify"
            /\ j' = 1
            /\ UNCHANGED i
       ELSE /\ i' = i + 1
            /\ UNCHANGED <<pc, j>>
    /\ UNCHANGED <<build, argv, disk, filter, numbers, count, stdout, stderr,
                   exitCode, calls, runNo, prevOut, prevExit>>
    /\ UNCHANGED <<harnessVars, logVars>>

\* for (int number : numbers) if (filter.keep(number)) ...
Run_Next ==
    /\ pc = "loop"
    /\ IF i > Len(numbers)
       THEN /\ pc' = IF Len(observers) = 0 THEN "return" ELSE "finish"
            /\ j' = 1
            /\ UNCHANGED i
       ELSE IF keep(filter, numbers[i]) /\ Len(observers) > 0
       THEN /\ pc' = "notify"
            /\ j' = 1
            /\ UNCHANGED i
       ELSE /\ i' = i + 1
            /\ UNCHANGED <<pc, j>>
    /\ UNCHANGED <<build, argv, disk, filter, numbers, count, stdout, stderr,
                   exitCode, calls, runNo, prevOut, prevExit>>
    /\ UNCHANGED <<harnessVars, logVars>>

\* the inner loop leaving after its first observer
Run_OnNumber_first_observer_only ==
    /\ pc = "notify"
    /\ LET st == on_number(observers[j], [out |-> stdout, count |-> count], numbers[i])
       IN  /\ stdout' = st.out
           /\ count' = st.count
    /\ calls' = Append(calls, Call(observers[j], "on_number", numbers[i]))
    /\ pc' = "loop"
    /\ i' = i + 1
    /\ j' = 1
    /\ UNCHANGED <<build, argv, disk, filter, numbers, stderr, exitCode,
                   runNo, prevOut, prevExit>>
    /\ UNCHANGED <<harnessVars, logVars>>

\* for (auto* obs : observers) obs->on_number(number);
Run_OnNumber ==
    /\ pc = "notify"
    /\ LET st == on_number(observers[j], [out |-> stdout, count |-> count], numbers[i])
       IN  /\ stdout' = st.out
           /\ count' = st.count
    /\ calls' = Append(calls, Call(observers[j], "on_number", numbers[i]))
    /\ IF j = Len(observers)
       THEN /\ pc' = "loop"
            /\ i' = i + 1
            /\ j' = 1
       ELSE /\ j' = j + 1
            /\ UNCHANGED <<pc, i>>
    /\ UNCHANGED <<build, argv, disk, filter, numbers, stderr, exitCode,
                   runNo, prevOut, prevExit>>
    /\ UNCHANGED <<harnessVars, logVars>>

\* for (auto* obs : observers) obs->on_finished();
Run_OnFinished ==
    /\ pc = "finish"
    /\ LET st == on_finished(observers[j], [out |-> stdout, count |-> count])
       IN  /\ stdout' = st.out
           /\ count' = st.count
    /\ calls' = Append(calls, Call(observers[j], "on_finished", 0))
    /\ IF j = Len(observers)
       THEN /\ pc' = "return"
            /\ j' = 1
       ELSE /\ j' = j + 1
            /\ UNCHANGED pc
    /\ UNCHANGED <<build, argv, disk, filter, numbers, i, stderr, exitCode,
                   runNo, prevOut, prevExit>>
    /\ UNCHANGED <<harnessVars, logVars>>

\* return 0;
Main_Return ==
    /\ pc = "return"
    /\ exitCode' = 0
    /\ pc' = "exit"
    /\ UNCHANGED <<build, argv, disk, filter, numbers, i, j, count, stdout, stderr,
                   calls, runNo, prevOut, prevExit>>
    /\ UNCHANGED <<harnessVars, logVars>>

\* The same command line is run again on the same file: a new process, whose
\* streams are empty and whose objects are not yet constructed.
Invoke ==
    /\ pc = "exit"
    /\ runNo < MaxRuns
    /\ runNo' = runNo + 1
    /\ prevOut' = stdout
    /\ prevExit' = exitCode
    /\ pc' = "main"
    /\ filter' = NoFilter
    /\ numbers' = <<>>
    /\ i' = 1
    /\ j' = 1
    /\ stdout' = <<>>
    /\ stderr' = <<>>
    /\ exitCode' = NoExit
    /\ calls' = <<>>
    /\ UNCHANGED <<build, argv, disk, count>>
    /\ UNCHANGED <<harnessVars, logVars>>

----------------------------------------------------------------------------
(* The pipeline as a program: inputs and specification *)

SeqsUpTo(S, n) == UNION {[1..k -> S] : k \in 0..n}

XYZ == <<"X", "Y", "Z">>

\* filter tokens on the command line of the pipeline
PipeTokens ==
    {EVEN, ODD, GT \o <<"4">>, GT \o <<"-", "3">>, XYZ, GT \o <<"a">>, EVEN \o <<"x">>}

\* tokens of the number file
FileTokens == {<<"-", "3">>, <<"4">>, <<"5">>, <<"8">>, <<"x">>}

CommandLines ==
    {<<>>, <<EVEN>>, <<EVEN, FileName, FileName>>} \cup {<<t, FileName>> : t \in PipeTokens}

Disks ==
    {[opens |-> FALSE, items |-> <<>>]}
        \cup {[opens |-> TRUE, items |-> c] : c \in SeqsUpTo(FileTokens, MaxItems)}

NoMade == [ok |-> FALSE, filter |-> NoFilter, what |-> "", args |-> <<>>]

HarnessIdle ==
    /\ made = NoMade
    /\ probe = 0
    /\ kept = FALSE

LoggerIdle ==
    /\ sink_ = "nullptr"
    /\ lout = <<>>
    /\ appLog = <<>>
    /\ lcalls = <<>>

ProcessStart ==
    /\ filter = NoFilter
    /\ numbers = <<>>
    /\ i = 1
    /\ j = 1
    /\ count = 0
    /\ stdout = <<>>
    /\ stderr = <<>>
    /\ exitCode = NoExit
    /\ calls = <<>>
    /\ runNo = 1
    /\ prevOut = <<>>
    /\ prevExit = NoExit

Init ==
    /\ build \in Builds
    /\ argv \in CommandLines
    /\ disk \in Disks
    /\ pc = "main"
    /\ ProcessStart
    /\ HarnessIdle
    /\ LoggerIdle

Next ==
    \/ Main_Args
    \/ Main_CreateFilter
    \/ Run_Read
    \/ Run_Next
    \/ Run_OnNumber
    \/ Run_OnFinished
    \/ Main_Return
    \/ Invoke

Spec == Init /\ [][Next]_vars

----------------------------------------------------------------------------
(* create_filter and keep as functions: every token, then every integer *)

Heads == {<<>>, EVEN, ODD, GT, <<"G">>, XYZ, <<"e", "v", "e", "n">>}

SuffixChars == {"-", "+", "0", "1", "5", "a", " "}

\* tokens at the edge of int
EdgeTokens ==
    {GT \o <<"2", "1", "4", "7", "4", "8", "3", "6", "4", "7">>,
     GT \o <<"2", "1", "4", "7", "4", "8", "3", "6", "4", "8">>,
     GT \o <<"-", "2", "1", "4", "7", "4", "8", "3", "6", "4", "8">>,
     GT \o <<"-", "2", "1", "4", "7", "4", "8", "3", "6", "4", "9">>}

HarnessTokens ==
    {h \o sfx : h \in Heads, sfx \in SeqsUpTo(SuffixChars, MaxSuffixLen)} \cup EdgeTokens

Probes == (-MaxNum)..MaxNum

FactoryInit ==
    /\ build \in Builds
    /\ argv \in {<<t>> : t \in HarnessTokens}
    /\ disk = [opens |-> FALSE, items |-> <<>>]
    /\ pc = "factory"
    /\ ProcessStart
    /\ HarnessIdle
    /\ LoggerIdle

\* create_filter(filter_str), the exception caught by the caller
Factory_Create ==
    /\ pc = "factory"
    /\ made' = create_filter(build, argv[1])
    /\ pc' = IF made'.ok THEN "made" ELSE "thrown"
    /\ UNCHANGED <<build, argv, disk, filter, numbers, i, j, count, stdout, stderr,
                   exitCode, calls, runNo, prevOut, prevExit>>
    /\ UNCHANGED <<probe, kept>>
    /\ UNCHANGED logVars

\* filter->keep(number)
Filter_Keep ==
    /\ pc = "made"
    /\ \E n \in Probes :
        /\ probe' = n
        /\ kept' = keep(made.filter, n)
    /\ pc' = "kept"
    /\ UNCHANGED <<build, argv, disk, filter, numbers, i, j, count, stdout, stderr,
                   exitCode, calls, runNo, prevOut, prevExit>>
    /\ UNCHANGED made
    /\ UNCHANGED logVars

FactoryNext ==
    \/ Factory_Create
    \/ Filter_Keep

FactorySpec == FactoryInit /\ [][FactoryNext]_vars

----------------------------------------------------------------------------
(* Logger *)

SinkTypes == {"CONSOLE", "FILE", "NONE"}

Messages == {"Test message 1", "Test message 2"}

LogLine(text, msg) == [text |-> text, msg |-> msg]

\* the switch of Logger::set_sink : the sink made for a type
MakeSink(type) ==
    CASE type = "CONSOLE" -> "ConsoleSink"
      [] type = "FILE" -> "FileSink"
      [] type = "NONE" -> "NullSink"

\* the switch of Logger::set_sink : the notice written to std::cout
SinkNotice(type) ==
    CASE type = "CONSOLE" -> LogLine("Log sink set to CONSOLE.", "")
      [] type = "FILE" -> LogLine("Log sink set to FILE.", "")
      [] type = "NONE" -> LogLine("Log sink set to NONE (no output).", "")

\* std::cout << "[Console] " << msg << std::endl;
ConsoleSink_write(out, msg) == Append(out, LogLine("[Console] ", msg))

\* the file opened without std::ios::app
FileSink_write_truncating(file, msg, opens) ==
    IF opens THEN <<LogLine("[File] ", msg)>> ELSE file

\* std::ofstream file("app.log", std::ios::app); if (file.is_open()) file << ...
FileSink_write(file, msg, opens) ==
    IF opens THEN Append(file, LogLine("[File] ", msg)) ELSE file

\* app.log as the demo finds it
EarlierLogs == {<<>>, <<LogLine("[File] ", "earlier")>>}

\* Logger::Logger() { set_sink(SinkType::CONSOLE); }
LoggerInit ==
    /\ build = "logger"
    /\ argv = <<>>
    /\ disk = [opens |-> FALSE, items |-> <<>>]
    /\ pc = "logger"
    /\ ProcessStart
    /\ HarnessIdle
    /\ sink_ = MakeSink("CONSOLE")
    /\ lout = <<SinkNotice("CONSOLE")>>
    /\ appLog \in EarlierLogs
    /\ lcalls = <<>>

LogCall(op, arg, opens) == [op |-> op, arg |-> arg, opens |-> opens]

set_sink ==
    /\ Len(lcalls) < MaxLogCalls
    /\ \E type \in SinkTypes :
        /\ sink_' = MakeSink(type)
        /\ lout' = Append(lout, SinkNotice(type))
        /\ lcalls' = Append(lcalls, LogCall("set_sink", type, TRUE))
    /\ UNCHANGED appLog
    /\ UNCHANGED <<pipeVars, harnessVars>>

\* if (sink_) sink_->write(msg);  opens: whether app.log opens for appending
log ==
    /\ Len(lcalls) < MaxLogCalls
    /\ \E msg \in Messages, opens \in BOOLEAN :
        /\ sink_ # "FileSink" => opens
        /\ lcalls' = Append(lcalls, LogCall("log", msg, opens))
        /\ CASE sink_ = "ConsoleSink" ->
                    /\ lout' = ConsoleSink_write(lout, msg)
                    /\ UNCHANGED appLog
             [] sink_ = "FileSink" ->
                    /\ appLog' = FileSink_write(appLog, msg, opens)
                    /\ UNCHANGED lout
             [] OTHER -> UNCHANGED <<lout, appLog>>
    /\ UNCHANGED sink_
    /\ UNCHANGED <<pipeVars, harnessVars>>

LoggerNext ==
    \/ set_sink
    \/ log

LoggerSpec == LoggerInit /\ [][LoggerNext]_vars

----------------------------------------------------------------------------
(* Vocabulary of the properties *)

\* what each filter is meant to accept, in the integers of mathematics
Holds(f, n) ==
    CASE f.kind = "Even" -> n % 2 = 0
      [] f.kind = "Odd" -> n % 2 = 1
      [] f.kind = "GT" -> n > f.threshold
      [] OTHER -> FALSE

TwoArgs == Len(argv) = 2

\* the run got no filter out of the factory
RunFactoryFails == TwoArgs /\ pc = "exit" /\ filter = NoFilter

\* the run has a filter and a source that cannot be opened
RunReaderFails == TwoArgs /\ filter # NoFilter /\ ~disk.opens /\ pc # "read"

OnNumberCalls == SelectSeq(calls, LAMBDA c : c.cb = "on_number")
OnFinishedCalls == SelectSeq(calls, LAMBDA c : c.cb = "on_finished")

\* one callback on every observer, in registration order
Broadcast(cb, number) == [m \in 1..Len(observers) |-> Call(observers[m], cb, number)]

\* the pass went over every integer and notified every observer of its end
FullPass ==
    /\ i = Len(numbers) + 1
    /\ Len(calls) >= Len(observers)
    /\ SubSeq(calls, Len(calls) - Len(observers) + 1, Len(calls)) = Broadcast("on_finished", 0)

Completed == pc = "exit" /\ exitCode = 0

KeptOf(ns) == SelectSeq(ns, LAMBDA n : Holds(filter, n))

----------------------------------------------------------------------------
(* C1 *)

\* C1 as stated: in a run whose Reader fails (the source cannot be opened) or
\* whose Factory fails, no observer callback is made and nothing is printed.
C1_NoCallbackWhenReaderOrFactoryFails ==
    (RunReaderFails \/ RunFactoryFails) => calls = <<>> /\ stdout = <<>>

\* C1 amended: no observer callback is made and nothing reaches standard output
\* in a run whose Factory fails or whose Reader raises (src/unnamed/part_000); with the
\* Reader of src/number_pipeline.cpp an unopenable source is an empty
\* sequence: no on_number, on_finished once on each observer, and the line
\* 'Total numbers passed filter: 0'.
C1_NoCallbackWhenRunAborts ==
    /\ RunFactoryFails => calls = <<>> /\ stdout = <<>>
    /\ (RunReaderFails /\ build = "part_000") =>
            /\ calls = <<>>
            /\ stdout = <<>>
            /\ pc = "exit"
    /\ (RunReaderFails /\ build = "number_pipeline") =>
            /\ OnNumberCalls = <<>>
            /\ pc = "exit" => /\ calls = Broadcast("on_finished", 0)
                              /\ stdout = <<TotalLine(0)>>

C1_Witness ==
    /\ RunReaderFails
    /\ build = "part_000"
    /\ pc = "exit"
    /\ stderr # <<>>

----------------------------------------------------------------------------
(* C2 *)

\* C2 as stated: with exactly two arguments the exit code is 2 whenever the
\* token fails to parse or the source cannot be read, 0 only after the full
\* pass, and with code 2 an 'Error: <message>' line is on standard error.
C2_ExitCodeTwoOnAnyFailure ==
    (TwoArgs /\ pc = "exit") =>
        /\ (filter = NoFilter \/ ~disk.opens) => exitCode = 2
        /\ exitCode = 0 => FullPass
        /\ exitCode = 2 => \E k \in DOMAIN stderr : stderr[k].text = "Error: "

\* C2 amended: with exactly two arguments the exit code is 2 whenever the
\* token fails to parse or the Reader raises on an unopenable source
\* (src/unnamed/part_000), with one 'Error: <message>' line on standard error; it is 0
\* only after the full pass; in src/number_pipeline.cpp an unopenable source
\* puts 'Error: Cannot open file <name>' on standard error and the exit code
\* is 0 after a pass over no integer.
C2_ExitCodes ==
    (TwoArgs /\ pc = "exit") =>
        /\ exitCode \in {0, 2}
        /\ (filter = NoFilter \/ (build = "part_000" /\ ~disk.opens)) => exitCode = 2
        /\ (build = "number_pipeline" /\ filter # NoFilter /\ ~disk.opens) =>
                /\ exitCode = 0
                /\ numbers = <<>>
                /\ stderr = <<ErrLine("Error: Cannot open file ", "", <<argv[2]>>)>>
        /\ exitCode = 0 => FullPass
        /\ exitCode = 2 => /\ Len(stderr) = 1
                           /\ stderr[1].text = "Error: "
                           /\ stderr[1].what # ""

C2_Witness ==
    /\ TwoArgs
    /\ pc = "exit"
    /\ exitCode = 2
    /\ filter = NoFilter
    /\ stderr # <<>>

----------------------------------------------------------------------------
(* C3 *)

\* C3: in a run that completes, on_finished is called exactly once on each
\* observer, in registration order, after the last on_number; at no point of a
\* run does an on_number follow an on_finished, nor is on_finished repeated.
C3_OnFinishedOncePerObserver ==
    /\ Completed => OnFinishedCalls = Broadcast("on_finished", 0)
    /\ Len(OnFinishedCalls) <= Len(observers)
    /\ OnFinishedCalls = SubSeq(Broadcast("on_finished", 0), 1, Len(OnFinishedCalls))
    /\ \A a, b \in DOMAIN calls :
            (a < b /\ calls[a].cb = "on_finished") => calls[b].cb = "on_finished"

\* a completed run over integers of which none was kept
C3_Witness ==
    /\ Completed
    /\ numbers # <<>>
    /\ OnNumberCalls = <<>>
    /\ Len(OnFinishedCalls) = Len(observers)

----------------------------------------------------------------------------
(* C4 *)

RECURSIVE NotifiedUpTo(_)
\* the on_number calls owed for numbers[1..k]
NotifiedUpTo(k) ==
    IF k = 0 THEN <<>>
    ELSE NotifiedUpTo(k - 1)
            \o (IF Holds(filter, numbers[k]) THEN Broadcast("on_number", numbers[k])
                ELSE <<>>)

\* C4: the integers are evaluated in the order the Reader returned them; each
\* kept integer is handed to on_number of every observer in registration order
\* before the next integer is evaluated; on_number is never called for an
\* integer that is not kept.
C4_OnNumberInOrder ==
    /\ pc \in {"loop", "finish", "return", "exit"} =>
            OnNumberCalls = NotifiedUpTo(IF i > Len(numbers) THEN Len(numbers) ELSE i - 1)
    /\ pc = "notify" =>
            /\ Holds(filter, numbers[i])
            /\ OnNumberCalls =
                    NotifiedUpTo(i - 1) \o SubSeq(Broadcast("on_number", numbers[i]), 1, j - 1)

\* a completed run that kept an integer, dropped the next and kept a later one
C4_Witness ==
    /\ Completed
    /\ \E a, b, c \in DOMAIN numbers :
            /\ a < b
            /\ b < c
            /\ Holds(filter, numbers[a])
            /\ ~Holds(filter, numbers[b])
            /\ Holds(filter, numbers[c])
    /\ Len(OnNumberCalls) >= 2 * Len(observers)

----------------------------------------------------------------------------
(* C5 *)

\* C5: a completed run writes to standard output the integers of the source
\* sequence for which the filter holds, one per line in source order, then
\* the one line 'Total numbers passed filter: N', N the number of those lines.
C5_OutputIsKeptThenTotal ==
    Completed =>
        LET keptNumbers == KeptOf(numbers)
        IN  stdout = [k \in 1..Len(keptNumbers) |-> NumLine(keptNumbers[k])]
                        \o <<TotalLine(Len(keptNumbers))>>

\* the odd filter over a source with a negative odd integer and an even one
C5_Witness ==
    /\ Completed
    /\ filter = OddFilter
    /\ \E a, b \in DOMAIN numbers : numbers[a] = -3 /\ numbers[b] = 4
    /\ Len(stdout) >= 2

----------------------------------------------------------------------------
(* C6 *)

AllDigits(s) == \A k \in DOMAIN s : IsDigit(s[k])

\* an optionally signed decimal integer that fits int
DecimalInt(s) ==
    LET body == IF s # <<>> /\ Head(s) \in {"-", "+"} THEN Tail(s) ELSE s
    IN  body # <<>> /\ AllDigits(body) /\ Len(body) <= 9

\* C6: create_filter knows three forms: the token "EVEN" gives the even
\* filter, the token "ODD" the odd filter, "GT" followed by an optionally
\* signed decimal integer a greater-than filter; a token of none of the three
\* heads gives an 'unknown filter' error carrying the token, and no filter.
C6_ExactlyThreeForms ==
    pc \in {"made", "thrown", "kept"} =>
        LET tok == argv[1]
        IN  /\ tok = EVEN => made.ok /\ made.filter = EvenFilter
            /\ tok = ODD => made.ok /\ made.filter = OddFilter
            /\ (StartsWith(tok, GT) /\ DecimalInt(substr(tok, 2))) =>
                    made.ok /\ made.filter.kind = "GT"
            /\ ~(tok = EVEN \/ tok = ODD \/ StartsWith(tok, GT)) =>
                    /\ ~made.ok
                    /\ made.filter = NoFilter
                    /\ made.what = "Unknown filter: "
                    /\ made.args = <<tok>>

----------------------------------------------------------------------------
(* C7 *)

\* C7: for a token that starts with "GT" and whose remainder is not read as
\* an integer, create_filter signals an 'invalid filter argument' error whose
\* message carries the token, and returns no filter.
C7_InvalidArgumentCarriesToken ==
    pc \in {"made", "thrown", "kept"} =>
        LET tok == argv[1]
        IN  (StartsWith(tok, GT) /\ ~ExtractInt(substr(tok, 2)).ok) =>
                /\ ~made.ok
                /\ made.filter = NoFilter
                /\ made.what \in {"Invalid GT filter format", "Invalid GT filter format: "}
                /\ made.args = <<tok>>

----------------------------------------------------------------------------
(* C8 *)

RECURSIVE NatText(_)
NatText(n) ==
    IF n < 10 THEN <<Digits[n + 1]>>
    ELSE NatText(n \div 10) \o <<Digits[(n % 10) + 1]>>

\* the decimal text of an integer
DecimalText(t) == IF t < 0 THEN <<"-">> \o NatText(-t) ELSE NatText(t)

Thresholds == ((-111)..111) \cup {INT_MAX, -INT_MAX}

\* C8: the filter made from "GT" followed by the decimal text of t has
\* threshold t and keeps n exactly when n > t, t negative included.
C8_GreaterThanIsStrict ==
    \A t \in Thresholds :
        (argv[1] = GT \o DecimalText(t) /\ pc \in {"made", "thrown", "kept"}) =>
            /\ made.ok
            /\ made.filter = [kind |-> "GT", threshold |-> t]
            /\ pc = "kept" => (kept <=> probe > t)

\* "GT-5" keeps -4
C8_Witness ==
    /\ pc = "kept"
    /\ argv[1] = GT \o <<"-", "5">>
    /\ made.filter.threshold = -5
    /\ probe = -4
    /\ kept

----------------------------------------------------------------------------
(* C9 *)

\* C9: a second run on the same source and token prints what the first
\* printed and ends as the first ended; the count a run reports is the number
\* of values that run printed.
C9_SecondRunSameOutput ==
    /\ (runNo >= 2 /\ pc = "exit") => stdout = prevOut /\ exitCode = prevExit
    /\ Completed =>
            /\ stdout # <<>>
            /\ stdout[Len(stdout)] = TotalLine(Len(stdout) - 1)

\* the second run has completed and printed at least two values
C9_Witness ==
    /\ runNo = 2
    /\ Completed
    /\ Len(stdout) >= 3
    /\ prevOut = stdout

----------------------------------------------------------------------------
(* C10 *)

RECURSIVE LastSinkType(_)
\* the argument of the most recent set_sink, CONSOLE when there is none
LastSinkType(h) ==
    IF h = <<>> THEN "CONSOLE"
    ELSE IF h[Len(h)].op = "set_sink" THEN h[Len(h)].arg
    ELSE LastSinkType(SubSeq(h, 1, Len(h) - 1))

\* the step is one more call on the Logger
LoggerCalled == Len(lcalls') = Len(lcalls) + 1

\* C10 as stated: each log(message) reaches exactly the sink of the most
\* recent set_sink: '[Console] message' on standard output, or '[File] message'
\* appended to the log file, or nothing; earlier file content is kept.
C10_Delivery ==
    LoggerCalled =>
        LET c == lcalls'[Len(lcalls')]
            type == LastSinkType(lcalls)
        IN  IF c.op = "log"
            THEN CASE type = "CONSOLE" ->
                        /\ lout' = Append(lout, LogLine("[Console] ", c.arg))
                        /\ appLog' = appLog
                   [] type = "FILE" ->
                        /\ lout' = lout
                        /\ appLog' = Append(appLog, LogLine("[File] ", c.arg))
                   [] OTHER -> lout' = lout /\ appLog' = appLog
            ELSE appLog' = appLog

C10_EveryLogDelivered == [][C10_Delivery]_vars

\* C10 amended: as stated, except that with the file sink the line is
\* appended only when app.log opens for appending; when it does not open the
\* message is written nowhere and the file is left as it was.
C10_DeliveryWhenFileOpens ==
    LoggerCalled =>
        LET c == lcalls'[Len(lcalls')]
            type == LastSinkType(lcalls)
        IN  IF c.op = "log"
            THEN CASE type = "CONSOLE" ->
                        /\ lout' = Append(lout, LogLine("[Console] ", c.arg))
                        /\ appLog' = appLog
                   [] type = "FILE" ->
                        /\ lout' = lout
                        /\ appLog' = IF c.opens
                                     THEN Append(appLog, LogLine("[File] ", c.arg))
                                     ELSE appLog
                   [] OTHER -> lout' = lout /\ appLog' = appLog
            ELSE appLog' = appLog

C10_EveryLogDeliveredIfFileOpens == [][C10_DeliveryWhenFileOpens]_vars

\* the file sink was chosen after the console and appended to earlier content
C10_Witness ==
    /\ \E a, b \in DOMAIN lcalls :
            /\ a < b
            /\ lcalls[a] = LogCall("set_sink", "FILE", TRUE)
            /\ lcalls[b].op = "log"
            /\ lcalls[b].opens
            /\ \A m \in a..b : lcalls[m].op = "set_sink" => lcalls[m].arg = "FILE"
    /\ Len(appLog) >= 2
    /\ appLog[1].msg = "earlier"

====
